---------------------------- MODULE Spec2Model ----------------------------
(***************************************************************************)
(* Firmware of the LoRaWAN temperature/humidity node: boot sequence        *)
(* (setup), credential provisioning over the operator serial line          *)
(* (Driver_Credentials), persisted provisioning record in the modem's NVM, *)
(* and the link state machine driven by the duty cycle (Driver_LoRaWan).   *)
(*                                                                         *)
(* Strings are sequences of one-character strings.                         *)
(***************************************************************************)
EXTENDS Integers, Sequences, FiniteSets, TLC

VARIABLES
    pc,             \* position of the single thread of control
    nvm,            \* persistent store of the modem, addresses 0..2
    radioLog,       \* store / lock requests sent on SerialLoRa in this boot
    gateRead,       \* locals magicNumber, state, checksum of credentialsAlreadyInit
    gateErr,        \* addresses whose read was answered with +ERR in that call
    haltCause,      \* "none", or which begin() failed: "radio", "sensor"
    devEui, appEui, appKey,     \* the three credential Strings
    configuration,  \* bool configuration
    serialRx,       \* characters waiting on the operator Serial line
    inputString,    \* line buffer of init_Credentials
    command,        \* argument of the latest processCommand call of this boot
    reply,          \* line printed by the latest processCommand call
    connected,      \* bool connected
    err_count,      \* int err_count
    reading,        \* float t, h read from the sensor by the latest duty cycle
    radioTx,        \* payloads handed to the modem by the latest duty cycle
    calls,          \* link functions the latest duty cycle called, in order
    lastOp,         \* what the latest duty cycle did
    prevErr,        \* err_count at the start of the latest duty cycle
    failRun,        \* failed sends in a row since the last join / good send
    history,        \* what earlier boots did to the provisioning record
    everDone        \* configuration was set to true in this or an earlier boot

vars == <<pc, nvm, radioLog, gateRead, gateErr, haltCause, devEui, appEui,
          appKey, configuration, serialRx, inputString, command, reply,
          connected, err_count, reading, radioTx, calls, lastOp, prevErr,
          failRun, history, everDone>>

---------------------------------------------------------------------------
(* Program constants *)

MAGICNUMBER == 92

ReadError == 255

DevEuiSize == 16

AppEuiSize == 16

AppKeySize == 32

ErrThreshold == 50

(* Bounds of the model *)

\* lines the operator may have typed that the device has not read yet
MaxRx == 2

\* how far the lengths of the credential test inputs stray from the size
LenSlack == 2

---------------------------------------------------------------------------
(* Strings *)

Rep(c, n) == [i \in 1..n |-> c]

StartsWith(s, p) == Len(s) >= Len(p) /\ SubSeq(s, 1, Len(p)) = p

\* String::remove(index, count)
Remove(s, index, count) ==
    IF index >= Len(s) THEN s
    ELSE LET n == IF count > Len(s) - index THEN Len(s) - index ELSE count
         IN  SubSeq(s, 1, index) \o SubSeq(s, index + n + 1, Len(s))

NL == "\n"

Contains(s, c) == \E i \in 1..Len(s) : s[i] = c

Count(s, c) == Cardinality({i \in 1..Len(s) : s[i] = c})

\* character codes of the characters the model uses
Ord(c) ==
    CASE c = "\n" -> 10  [] c = " " -> 32  [] c = "+" -> 43  [] c = "/" -> 47
      [] c = "0" -> 48   [] c = "9" -> 57  [] c = ":" -> 58  [] c = "=" -> 61
      [] c = "?" -> 63   [] c = "@" -> 64  [] c = "A" -> 65  [] c = "D" -> 68
      [] c = "F" -> 70   [] c = "G" -> 71  [] c = "K" -> 75  [] c = "S" -> 83
      [] c = "T" -> 84   [] c = "X" -> 88  [] c = "a" -> 97  [] c = "f" -> 102
      [] c = "g" -> 103

AT_HELP == <<"A", "T", "?", NL>>

AT_D == <<"A", "T", "+", "D", "=">>

AT_A == <<"A", "T", "+", "A">>

AT_K == <<"A", "T", "+", "K">>

AT_S == <<"A", "T", "+", "S", NL>>

---------------------------------------------------------------------------
(* Driver_Credentials: validation *)

isHexChar(c) ==
    \/ (Ord(c) >= Ord("0") /\ Ord(c) <= Ord("9"))
    \/ (Ord(c) >= Ord("A") /\ Ord(c) <= Ord("F"))
    \/ (Ord(c) >= Ord("a") /\ Ord(c) <= Ord("f"))

\* the index k at which the while loop of isCredential stops
RECURSIVE hexScan(_, _, _)
hexScan(credential, size, k) ==
    IF k < size /\ isHexChar(credential[k + 1])
    THEN hexScan(credential, size, k + 1)
    ELSE k

\* mutant: the length test forgets the line terminator
isCredential_noTerminator(credential, size) ==
    IF Len(credential) # size
    THEN FALSE
    ELSE hexScan(credential, size - 1, 0) = size - 1

isCredential(credential, size) ==
    IF Len(credential) # size + 1
    THEN FALSE
    ELSE hexScan(credential, size, 0) = size

isDevEUI(devEUI) == isCredential(devEUI, DevEuiSize)

isAppEUI(appEUI) == isCredential(appEUI, AppEuiSize)

isAppKey(key) == isCredential(key, AppKeySize)

---------------------------------------------------------------------------
(* Driver_Credentials: command dispatch.  cr holds the globals devEui,     *)
(* appEui, appKey and configuration; the result adds the printed line.     *)

\* mutant: AT+D= stores the value before it is validated and clears it
\* again when it is refused
processCommand_storeFirst(cmd, cr) ==
    LET arg == Remove(cmd, 0, 5)
        out(r, line) == [devEui |-> r.devEui, appEui |-> r.appEui,
                         appKey |-> r.appKey,
                         configuration |-> r.configuration, reply |-> line]
    IN  IF cmd = AT_HELP
        THEN out(cr, "Commands available")
        ELSE IF StartsWith(cmd, AT_D)
        THEN IF isDevEUI(arg)
             THEN out([cr EXCEPT !.devEui = arg], "DevEUI OK")
             ELSE out([cr EXCEPT !.devEui = <<>>],
                      "DevEUI incorrect, please try again")
        ELSE IF StartsWith(cmd, AT_A)
        THEN IF isAppEUI(arg)
             THEN out([cr EXCEPT !.appEui = arg], "AppEUI OK")
             ELSE out(cr, "AppEUI incorrect, please try again")
        ELSE IF StartsWith(cmd, AT_K)
        THEN IF isAppKey(arg)
             THEN out([cr EXCEPT !.appKey = arg], "AppKey OK")
             ELSE out(cr, "AppKey incorrect, please try again")
        ELSE IF cmd = AT_S
        THEN IF cr.appEui # <<>> /\ cr.appEui # <<>> /\ cr.appKey # <<>>
             THEN out([cr EXCEPT !.configuration = TRUE],
                      "Configuration of the credentials finished")
             ELSE out(cr, "You have to configure all the credentials")
        ELSE out(cr, "Invalid command, type AT? for assistance")

processCommand(cmd, cr) ==
    LET arg == Remove(cmd, 0, 5)
        out(r, line) == [devEui |-> r.devEui, appEui |-> r.appEui,
                         appKey |-> r.appKey,
                         configuration |-> r.configuration, reply |-> line]
    IN  IF cmd = AT_HELP
        THEN out(cr, "Commands available")
        ELSE IF StartsWith(cmd, AT_D)
        THEN IF isDevEUI(arg)
             THEN out([cr EXCEPT !.devEui = arg], "DevEUI OK")
             ELSE out(cr, "DevEUI incorrect, please try again")
        ELSE IF StartsWith(cmd, AT_A)
        THEN IF isAppEUI(arg)
             THEN out([cr EXCEPT !.appEui = arg], "AppEUI OK")
             ELSE out(cr, "AppEUI incorrect, please try again")
        ELSE IF StartsWith(cmd, AT_K)
        THEN IF isAppKey(arg)
             THEN out([cr EXCEPT !.appKey = arg], "AppKey OK")
             ELSE out(cr, "AppKey incorrect, please try again")
        ELSE IF cmd = AT_S
        THEN IF cr.appEui # <<>> /\ cr.appEui # <<>> /\ cr.appKey # <<>>
             THEN out([cr EXCEPT !.configuration = TRUE],
                      "Configuration of the credentials finished")
             ELSE out(cr, "You have to configure all the credentials")
        ELSE out(cr, "Invalid command, type AT? for assistance")

---------------------------------------------------------------------------
(* Driver_Credentials: the persistent store *)

\* value returned by readNVM when the modem answers "<address>=<value>\n"
\* (ok) or "+ERR" (~ok)
readNVM(store, address, ok) ==
    IF ok THEN store[address] % 256 ELSE ReadError

\* the store after the modem has executed "AT$NVM <address>,<value>"; the
\* modem is taken to execute every write it is sent (the callers drop the
\* bool that writeNVM returns)
writeNVM(store, address, value) ==
    [store EXCEPT ![address] = value % 256]

\* mutant: the state byte is compared with 0 instead of 1
credentialsAlreadyInit_state0(magicNumber, state, checksum) ==
    ~ (magicNumber # MAGICNUMBER \/ state # 0 \/ magicNumber + state # checksum)

\* mutant: the state byte is not compared at all
credentialsAlreadyInit_noState(magicNumber, state, checksum) ==
    ~ (magicNumber # MAGICNUMBER \/ magicNumber + state # checksum)

credentialsAlreadyInit(magicNumber, state, checksum) ==
    ~ (magicNumber # MAGICNUMBER \/ state # 1 \/ magicNumber + state # checksum)

Configured == <<MAGICNUMBER, 1, MAGICNUMBER + 1>>

---------------------------------------------------------------------------
(* Driver_LoRaWan.  st holds the globals connected and err_count. *)

\* next step of setup after init_LoRaWan; beginOk is modem.begin(EU868)
\* mutant: a modem that fails to start does not stop the boot
init_LoRaWan_noHalt(beginOk) == "init_SHT31"

init_LoRaWan(beginOk) == IF ~beginOk THEN "halted" ELSE "init_SHT31"

\* next step of setup after init_SHT31; beginOk is sht31.begin(0x44)
init_SHT31(beginOk) == IF ~beginOk THEN "halted" ELSE "gate"

\* mutant: a failed join clears the counter too
connect_clearsOnFailure(st, ret) ==
    IF ret # 0
    THEN [connected |-> TRUE, err_count |-> 0]
    ELSE [connected |-> st.connected, err_count |-> 0]

\* mutant: a join is refused once the counter has passed the threshold
connect_notAfterDrop(st, ret) ==
    IF ret # 0 /\ st.err_count <= ErrThreshold
    THEN [connected |-> TRUE, err_count |-> 0]
    ELSE st

\* ret is the value of modem.joinOTAA(appEui, appKey, devEui)
connect(st, ret) ==
    IF ret # 0
    THEN [connected |-> TRUE, err_count |-> 0]
    ELSE st

\* mutant: the link is dropped one failure early
send_offByOne(st, err) ==
    IF err <= 0
    THEN [connected |-> IF st.err_count + 1 >= ErrThreshold
                        THEN FALSE ELSE st.connected,
          err_count |-> st.err_count + 1]
    ELSE [connected |-> st.connected, err_count |-> 0]

\* mutant: dropping the link also clears the counter
send_resetOnDrop(st, err) ==
    IF err <= 0
    THEN IF st.err_count + 1 > ErrThreshold
         THEN [connected |-> FALSE, err_count |-> 0]
         ELSE [connected |-> st.connected, err_count |-> st.err_count + 1]
    ELSE [connected |-> st.connected, err_count |-> 0]

\* mutant: a good transmission leaves the counter alone
send_noReset(st, err) ==
    IF err <= 0
    THEN [connected |-> IF st.err_count + 1 > ErrThreshold
                        THEN FALSE ELSE st.connected,
          err_count |-> st.err_count + 1]
    ELSE st

\* mutant: the threshold is tested before the counter is incremented
send_testFirst(st, err) ==
    IF err <= 0
    THEN [connected |-> IF st.err_count > ErrThreshold
                        THEN FALSE ELSE st.connected,
          err_count |-> st.err_count + 1]
    ELSE [connected |-> st.connected, err_count |-> 0]

\* err is the value of modem.endPacket(true)
send(st, err) ==
    IF err <= 0
    THEN [connected |-> IF st.err_count + 1 > ErrThreshold
                        THEN FALSE ELSE st.connected,
          err_count |-> st.err_count + 1]
    ELSE [connected |-> st.connected, err_count |-> 0]

---------------------------------------------------------------------------
(* The duty cycle.  A float is the four bytes it occupies in memory.       *)

\* (temperature, humidity) pairs the sensor returns: (23.5f, 60.0f) and
\* (0.0f, NaN) as stored on the little-endian target
Readings == { <<<<0, 0, 188, 65>>, <<0, 0, 112, 66>>>>,
              <<<<0, 0, 0, 0>>, <<0, 0, 192, 127>>>> }

\* mutant: each float is copied most significant byte first
buildMsg_reversed(t, h) == <<t[4], t[3], t[2], t[1], h[4], h[3], h[2], h[1]>>

buildMsg(t, h) == <<t[1], t[2], t[3], t[4], h[1], h[2], h[3], h[4]>>

\* mutant: a failed transmission is repeated at once
loop_retry(st, t, h, joinRet, sendErr) ==
    LET m == buildMsg(t, h)
    IN  IF ~st.connected
        THEN [link |-> connect(st, joinRet), tx |-> <<>>,
              calls |-> <<"connect">>]
        ELSE [link |-> send(st, sendErr),
              tx |-> IF sendErr <= 0 THEN <<m, m>> ELSE <<m>>,
              calls |-> IF sendErr <= 0 THEN <<"send", "send">>
                        ELSE <<"send">>]

\* mutant: the pass that joins goes on to send its payload
loop_joinThenSend(st, t, h, joinRet, sendErr) ==
    LET m == buildMsg(t, h)
        joined == connect(st, joinRet)
    IN  IF ~st.connected
        THEN IF joined.connected
             THEN [link |-> send(joined, sendErr), tx |-> <<m>>,
                   calls |-> <<"connect", "send">>]
             ELSE [link |-> joined, tx |-> <<>>, calls |-> <<"connect">>]
        ELSE [link |-> send(st, sendErr), tx |-> <<m>>,
              calls |-> <<"send">>]

\* one pass of loop(): the link globals after it, the payloads given to
\* modem.write and the link functions called
loop(st, t, h, joinRet, sendErr) ==
    LET m == buildMsg(t, h)
    IN  IF ~st.connected
        THEN [link |-> connect(st, joinRet), tx |-> <<>>,
              calls |-> <<"connect">>]
        ELSE [link |-> send(st, sendErr), tx |-> <<m>>,
              calls |-> <<"send">>]

JoinResults == {0, 1}

SendResults == {-1, 0, 1}

---------------------------------------------------------------------------
(* Inputs *)

\* store contents of a device that was never provisioned
NvmSamples == { <<255, 255, 255>>, <<0, 1, 93>> }

DevEuiLine == AT_D \o Rep("a", DevEuiSize) \o <<NL>>

AppEuiLine == AT_A \o <<"=">> \o Rep("0", AppEuiSize) \o <<NL>>

AppKeyLine == AT_K \o <<"=">> \o Rep("F", AppKeySize) \o <<NL>>

BadDevEuiLine == AT_D \o Rep("g", DevEuiSize) \o <<NL>>

\* lines the operator types during provisioning
Lines == { AT_HELP, DevEuiLine, AppEuiLine, AppKeyLine, AT_S, BadDevEuiLine }

---------------------------------------------------------------------------
(* State machine *)

\* the volatile state right after power-on
PowerOn ==
    /\ pc = "init_LoRaWan"
    /\ radioLog = <<>>
    /\ gateRead = <<>>
    /\ gateErr = {}
    /\ haltCause = "none"
    /\ devEui = <<>> /\ appEui = <<>> /\ appKey = <<>>
    /\ configuration = FALSE
    /\ serialRx = <<>>
    /\ inputString = <<>>
    /\ command = <<>>
    /\ reply = ""
    /\ connected = FALSE
    /\ err_count = 0
    /\ reading = <<>>
    /\ radioTx = <<>>
    /\ calls = <<>>
    /\ lastOp = "none"
    /\ prevErr = 0
    /\ failRun = 0

Init ==
    /\ PowerOn
    /\ nvm \in { [a \in 0..2 |-> s[a + 1]] : s \in NvmSamples }
    /\ history = "never"
    /\ everDone = FALSE

provVars == <<devEui, appEui, appKey, configuration, serialRx, inputString,
              command, reply>>

linkVars == <<connected, err_count, reading, radioTx, calls, lastOp,
              prevErr, failRun>>

\* setup(): init_LoRaWan
InitLoRaWan ==
    /\ pc = "init_LoRaWan"
    /\ \E beginOk \in BOOLEAN :
          /\ pc' = init_LoRaWan(beginOk)
          /\ haltCause' = IF beginOk THEN haltCause ELSE "radio"
    /\ UNCHANGED <<nvm, radioLog, gateRead, gateErr, provVars, linkVars,
                   history, everDone>>

\* setup(): init_SHT31
InitSHT31 ==
    /\ pc = "init_SHT31"
    /\ \E beginOk \in BOOLEAN :
          /\ pc' = init_SHT31(beginOk)
          /\ haltCause' = IF beginOk THEN haltCause ELSE "sensor"
    /\ UNCHANGED <<nvm, radioLog, gateRead, gateErr, provVars, linkVars,
                   history, everDone>>

\* setup(): if(!credentialsAlreadyInit())
Gate ==
    /\ pc = "gate"
    /\ \E ok0 \in BOOLEAN, ok1 \in BOOLEAN, ok2 \in BOOLEAN :
          LET magicNumber == readNVM(nvm, 0, ok0)
              state == readNVM(nvm, 1, ok1)
              checksum == readNVM(nvm, 2, ok2)
          IN  /\ gateRead' = <<magicNumber, state, checksum>>
              /\ gateErr' = {a \in 0..2 : ~ <<ok0, ok1, ok2>>[a + 1]}
              /\ pc' = IF credentialsAlreadyInit(magicNumber, state, checksum)
                       THEN "loop" ELSE "stamp0"
    /\ radioLog' = radioLog \o << <<"R", 0>>, <<"R", 1>>, <<"R", 2>> >>
    /\ UNCHANGED <<nvm, haltCause, provVars, linkVars, history, everDone>>

\* one writeNVM(address, value) of setup() or init_Credentials()
StoreWrite(at, address, value, next) ==
    /\ pc = at
    /\ nvm' = writeNVM(nvm, address, value)
    /\ radioLog' = Append(radioLog, <<"W", address, value>>)
    /\ pc' = next
    /\ gateRead' = <<>>
    /\ gateErr' = {}
    /\ UNCHANGED <<haltCause, provVars, linkVars, history, everDone>>

Stamp0 == StoreWrite("stamp0", 0, MAGICNUMBER, "stamp1")

Stamp1 == StoreWrite("stamp1", 1, 0, "stamp2")

Stamp2 == StoreWrite("stamp2", 2, MAGICNUMBER, "init_Credentials")

\* the operator types one line while the device waits for commands
OperatorSend ==
    /\ pc = "init_Credentials"
    /\ Count(serialRx, NL) < MaxRx
    /\ \E line \in Lines : serialRx' = serialRx \o line
    /\ UNCHANGED <<pc, nvm, radioLog, gateRead, gateErr, haltCause, devEui,
                   appEui, appKey, configuration, inputString, command, reply,
                   linkVars, history, everDone>>

\* init_Credentials(): one pass of while(!configuration) that finds
\* characters on Serial
Poll ==
    /\ pc = "init_Credentials"
    /\ ~configuration
    /\ serialRx # <<>>
    /\ LET buf == inputString \o serialRx
           stringComplete == Contains(serialRx, NL)
           r == processCommand(buf, [devEui |-> devEui, appEui |-> appEui,
                                     appKey |-> appKey,
                                     configuration |-> configuration])
       IN  IF stringComplete
           THEN /\ devEui' = r.devEui
                /\ appEui' = r.appEui
                /\ appKey' = r.appKey
                /\ configuration' = r.configuration
                /\ command' = buf
                /\ reply' = r.reply
                /\ inputString' = <<>>
                /\ pc' = IF r.configuration THEN "fin1" ELSE pc
                /\ everDone' = (everDone \/ r.configuration)
           ELSE /\ inputString' = buf
                /\ UNCHANGED <<devEui, appEui, appKey, configuration, command,
                               reply, pc, everDone>>
    /\ serialRx' = <<>>
    /\ UNCHANGED <<nvm, radioLog, gateRead, gateErr, haltCause, linkVars,
                   history>>

Fin1 == StoreWrite("fin1", 1, 1, "fin2")

\* mutant: init_Credentials returns without the lock command
Fin2_noLock == StoreWrite("fin2", 2, MAGICNUMBER + 1, "loop")

Fin2 == StoreWrite("fin2", 2, MAGICNUMBER + 1, "lock")

\* init_Credentials(): SerialLoRa.println("AT$APKACCESS")
Lock ==
    /\ pc = "lock"
    /\ radioLog' = Append(radioLog, <<"LOCK">>)
    /\ pc' = "loop"
    /\ UNCHANGED <<nvm, gateRead, gateErr, haltCause, provVars, linkVars,
                   history, everDone>>

\* loop(): one duty cycle
Loop ==
    /\ pc = "loop"
    /\ \E rd \in Readings, joinRet \in JoinResults, sendErr \in SendResults :
          LET st == [connected |-> connected, err_count |-> err_count]
              r == loop(st, rd[1], rd[2], joinRet, sendErr)
          IN  /\ connected' = r.link.connected
              /\ err_count' = r.link.err_count
              /\ reading' = rd
              /\ radioTx' = r.tx
              /\ calls' = r.calls
              /\ lastOp' = IF ~connected
                           THEN IF joinRet # 0 THEN "joinOk" ELSE "joinFail"
                           ELSE IF sendErr > 0 THEN "sendOk" ELSE "sendFail"
              /\ failRun' = IF ~connected
                            THEN IF joinRet # 0 THEN 0 ELSE failRun
                            ELSE IF sendErr > 0 THEN 0 ELSE failRun + 1
    /\ prevErr' = err_count
    /\ gateRead' = <<>>
    /\ gateErr' = {}
    /\ UNCHANGED <<pc, nvm, radioLog, haltCause, provVars, history, everDone>>

\* this boot ran init_Credentials to its end and left a configured record
CompletedThisBoot ==
    /\ pc = "loop"
    /\ \E i \in 1..Len(radioLog) : radioLog[i] = <<"LOCK">>
    /\ nvm = [a \in 0..2 |-> Configured[a + 1]]

\* this boot's gate did not find a configured record
GateFailedThisBoot ==
    \E i \in 1..Len(radioLog) : radioLog[i][1] = "W"

\* power is cycled: the store survives, everything else starts again
Reset ==
    /\ pc # "init_LoRaWan"
    /\ pc' = "init_LoRaWan"
    /\ radioLog' = <<>>
    /\ gateRead' = <<>>
    /\ gateErr' = {}
    /\ haltCause' = "none"
    /\ devEui' = <<>> /\ appEui' = <<>> /\ appKey' = <<>>
    /\ configuration' = FALSE
    /\ serialRx' = <<>>
    /\ inputString' = <<>>
    /\ command' = <<>>
    /\ reply' = ""
    /\ connected' = FALSE
    /\ err_count' = 0
    /\ reading' = <<>>
    /\ radioTx' = <<>>
    /\ calls' = <<>>
    /\ lastOp' = "none"
    /\ prevErr' = 0
    /\ failRun' = 0
    /\ history' = IF CompletedThisBoot THEN "intact"
                  ELSE IF GateFailedThisBoot /\ history = "intact"
                       THEN "restamped"
                       ELSE history
    /\ UNCHANGED <<nvm, everDone>>

Next ==
    \/ InitLoRaWan
    \/ InitSHT31
    \/ Gate
    \/ Stamp0
    \/ Stamp1
    \/ Stamp2
    \/ OperatorSend
    \/ Poll
    \/ Fin1
    \/ Fin2
    \/ Lock
    \/ Loop
    \/ Reset

Spec == Init /\ [][Next]_vars

---------------------------------------------------------------------------
(* Credential validation on its own: the device waits for commands and     *)
(* the operator has typed one credential command.                          *)

\* hex digits, their neighbours in the character table, and other characters
TestChars == {"0", "9", "A", "F", "a", "f", "/", ":", "@", "G", "g", " ", "X"}

\* Rep("a", n) with the character at position p replaced by c
Variant(n, p, c) == [i \in 1..n |-> IF i = p THEN c ELSE "a"]

CredBodies(size) ==
    { Variant(n, p, c) : n \in ((size - LenSlack)..(size + LenSlack)),
                         p \in 1..(size + LenSlack), c \in TestChars }

CredLines ==
    { AT_D \o b \o <<NL>> : b \in CredBodies(DevEuiSize) }
    \cup { AT_A \o <<"=">> \o b \o <<NL>> : b \in CredBodies(AppEuiSize) }
    \cup { AT_K \o <<"=">> \o b \o <<NL>> : b \in CredBodies(AppKeySize) }

InitCred ==
    /\ pc = "init_Credentials"
    /\ nvm = [a \in 0..2 |-> <<MAGICNUMBER, 0, MAGICNUMBER>>[a + 1]]
    /\ radioLog = << <<"R", 0>>, <<"R", 1>>, <<"R", 2>>,
                     <<"W", 0, MAGICNUMBER>>, <<"W", 1, 0>>,
                     <<"W", 2, MAGICNUMBER>> >>
    /\ gateRead = <<>>
    /\ gateErr = {}
    /\ haltCause = "none"
    /\ devEui = <<>> /\ appEui = <<>> /\ appKey = <<>>
    /\ configuration = FALSE
    /\ serialRx \in CredLines
    /\ inputString = <<>>
    /\ command = <<>>
    /\ reply = ""
    /\ connected = FALSE
    /\ err_count = 0
    /\ reading = <<>>
    /\ radioTx = <<>>
    /\ calls = <<>>
    /\ lastOp = "none"
    /\ prevErr = 0
    /\ failRun = 0
    /\ history = "never"
    /\ everDone = FALSE

NextCred == Poll

SpecCred == InitCred /\ [][NextCred]_vars

---------------------------------------------------------------------------
(* The duty cycle on its own: setup() has returned on a provisioned        *)
(* device and the runtime calls loop() for ever.                           *)

InitLink ==
    /\ pc = "loop"
    /\ nvm = [a \in 0..2 |-> Configured[a + 1]]
    /\ radioLog = << <<"R", 0>>, <<"R", 1>>, <<"R", 2>> >>
    /\ gateRead = Configured
    /\ gateErr = {}
    /\ haltCause = "none"
    /\ devEui = <<>> /\ appEui = <<>> /\ appKey = <<>>
    /\ configuration = FALSE
    /\ serialRx = <<>>
    /\ inputString = <<>>
    /\ command = <<>>
    /\ reply = ""
    /\ connected = FALSE
    /\ err_count = 0
    /\ reading = <<>>
    /\ radioTx = <<>>
    /\ calls = <<>>
    /\ lastOp = "none"
    /\ prevErr = 0
    /\ failRun = 0
    /\ history = "intact"
    /\ everDone = TRUE

\* a duty cycle whose join succeeds
JoinOk == Loop /\ ~connected /\ connected'

NextLink == Loop

\* loop() is called again and again, and a join that is tried for ever
\* succeeds at some time
SpecLink ==
    InitLink /\ [][NextLink]_vars /\ WF_vars(Loop) /\ WF_vars(JoinOk)

---------------------------------------------------------------------------
(* Properties *)

NvmIs(t) == nvm = [a \in 0..2 |-> t[a + 1]]

GateReads == << <<"R", 0>>, <<"R", 1>>, <<"R", 2>> >>

AllCredentialsSet == devEui # <<>> /\ appEui # <<>> /\ appKey # <<>>

\* C1: in a run of failed sends that starts with the link connected and
\* err_count = 0 (the state a successful join leaves; a good send restores
\* it), the 1st..50th failure leave the link connected with err_count
\* 1..50, and the 51st is the first to disconnect it.
C1_FiftyFailuresKeepLink ==
    /\ failRun \in 1..50 => (connected /\ err_count = failRun)
    /\ failRun >= 51 => (failRun = 51 /\ ~connected)

C1_Witness ==
    lastOp = "sendFail" /\ failRun = 50 /\ connected /\ err_count = 50

\* C2 as stated: after 51 failed sends in a row the link is disconnected
\* and the 51st failure has reset err_count to 0.
C2_DropResetsCounter ==
    (lastOp = "sendFail" /\ failRun = 51) => (~connected /\ err_count = 0)

\* C2 amended: after 51 failed sends in a row the link is disconnected and
\* err_count is 51; it stays 51 while the link is down and is 0 again only
\* once a join has succeeded.
C2_DropKeepsCounter ==
    /\ failRun = 51 => (~connected /\ err_count = 51)
    /\ (~connected /\ err_count # 0) => err_count = 51
    /\ lastOp = "joinOk" => (connected /\ err_count = 0)

C2_Witness ==
    lastOp = "sendFail" /\ failRun = 51 /\ ~connected /\ err_count = 51

\* C3: a successful send sets err_count to 0 and leaves the link
\* connected, whatever err_count was before it.
C3_GoodSendClearsCounter ==
    lastOp = "sendOk" => (err_count = 0 /\ connected)

C3_Witness ==
    lastOp = "sendOk" /\ prevErr = 50 /\ err_count = 0 /\ connected

ValidRecord(m, s, c) == m = 92 /\ s = 1 /\ c = 93

\* bytes around the expected record, and the error sentinel
ByteSamples == {0, 1, 91, 92, 93, 94, 255}

\* C4: credentialsAlreadyInit is true exactly for the triple (92, 1, 93):
\* the branch setup takes agrees with it for the three values read, the
\* function agrees with it when one of the three bytes ranges over 0..255
\* (the other two being the values read, or any two sample bytes), it is
\* false for (92, 0, 92), and false when a read returned the error
\* sentinel.
C4_GateExactlyValidRecord ==
    gateRead # <<>> =>
        LET m == gateRead[1]
            s == gateRead[2]
            c == gateRead[3]
        IN  /\ (pc = "loop") = ValidRecord(m, s, c)
            /\ pc \in {"loop", "stamp0"}
            /\ \A b \in 0..255 :
                  /\ credentialsAlreadyInit(b, s, c) = ValidRecord(b, s, c)
                  /\ credentialsAlreadyInit(m, b, c) = ValidRecord(m, b, c)
                  /\ credentialsAlreadyInit(m, s, b) = ValidRecord(m, s, b)
            /\ \A b \in 0..255, x \in ByteSamples, y \in ByteSamples :
                  /\ credentialsAlreadyInit(b, x, y) = ValidRecord(b, x, y)
                  /\ credentialsAlreadyInit(x, b, y) = ValidRecord(x, b, y)
                  /\ credentialsAlreadyInit(x, y, b) = ValidRecord(x, y, b)
            /\ ~credentialsAlreadyInit(92, 0, 92)
            /\ gateErr # {} => (pc = "stamp0" /\ \A a \in gateErr :
                                                   gateRead[a + 1] = 255)

C4_Witness ==
    gateRead = <<92, 1, 255>> /\ gateErr = {2} /\ pc = "stamp0"

\* what a boot that skips provisioning has done when it enters the duty
\* cycle: three store reads, no write, no lock, no command
SkippedProvisioning ==
    /\ pc = "loop"
    /\ gateRead = <<92, 1, 93>>
    /\ radioLog = GateReads
    /\ command = <<>> /\ reply = "" /\ inputString = <<>>

\* C5 as stated: once a boot has completed provisioning and left the
\* record configured, every later boot whose three reads succeed skips
\* provisioning.
C5_ProvisionedOnce ==
    (history # "never" /\ gateRead # <<>> /\ gateErr = {})
        => SkippedProvisioning

\* C5 amended: the same, for the later boots that no boot since that
\* provisioning has preceded with a stamp write (a boot whose gate check
\* failed, e.g. on a read error, re-stamps the record as unconfigured).
C5_ProvisionedUntilRestamped ==
    (history = "intact" /\ gateRead # <<>> /\ gateErr = {})
        => SkippedProvisioning

C5_Witness ==
    history = "intact" /\ gateErr = {} /\ SkippedProvisioning

\* C6: AT+S ends provisioning only if the three credentials are set;
\* otherwise it prints the "configure all" error and the handler keeps
\* waiting.
C6_SaveNeedsAllThree ==
    /\ configuration => AllCredentialsSet
    /\ (command = AT_S /\ ~AllCredentialsSet) =>
          /\ reply = "You have to configure all the credentials"
          /\ ~configuration
          /\ pc = "init_Credentials"

\* C7: every join is called with three non-empty credentials, also on a
\* boot that skipped provisioning.
C7_JoinNeedsCredentials ==
    lastOp \in {"joinOk", "joinFail"} => AllCredentialsSet

HexDigits == {"0", "9", "A", "D", "F", "a", "f"}

\* the credential size a command line asks to validate, by its prefix
SizeOf(cmd) == IF StartsWith(cmd, AT_K) THEN 32 ELSE 16

Accepted ==
    \/ StartsWith(command, AT_D) /\ reply = "DevEUI OK"
    \/ StartsWith(command, AT_A) /\ reply = "AppEUI OK"
    \/ StartsWith(command, AT_K) /\ reply = "AppKey OK"

\* C8: a credential command is accepted exactly when its value (the line
\* from its 6th character on, terminator included) has length N + 1 and
\* N leading hex digits, N = 16 for devEUI and appEUI and 32 for appKey.
C8_CredentialFormat ==
    command # <<>> =>
        LET s == SubSeq(command, 6, Len(command))
            N == SizeOf(command)
        IN  Accepted = (/\ Len(s) = N + 1
                        /\ \A i \in 1..N : s[i] \in HexDigits)

C8_Witness ==
    /\ command = AT_K \o <<"=">> \o Rep("a", 32) \o <<NL>>
    /\ reply = "AppKey OK"
    /\ appKey = Rep("a", 32) \o <<NL>>

Payload(rd) == rd[1] \o rd[2]

\* C9: a duty cycle hands at most one payload to the modem, and it is the
\* payload of the reading taken in that cycle; a cycle used for a join
\* hands over nothing.
C9_AtMostOnce ==
    /\ Len(radioTx) <= 1
    /\ radioTx # <<>> => (/\ radioTx[1] = Payload(reading)
                          /\ lastOp \in {"sendOk", "sendFail"})
    /\ lastOp \in {"none", "joinOk", "joinFail"} => radioTx = <<>>

C9_Witness ==
    /\ lastOp = "sendFail" /\ prevErr = 1
    /\ radioTx = <<Payload(reading)>>

\* C10: once modem.begin or sht31.begin has failed the device is halted,
\* and until power is cycled it has made no store request, processed no
\* command, sent no lock, and neither joined nor sent.
C10_HaltIsFinal ==
    /\ haltCause # "none" =>
          /\ pc = "halted"
          /\ radioLog = <<>>
          /\ command = <<>> /\ reply = "" /\ inputString = <<>>
          /\ lastOp = "none" /\ radioTx = <<>> /\ ~connected
          /\ ~configuration
    /\ pc = "halted" => haltCause # "none"

C10_Witness ==
    pc = "halted" /\ haltCause = "radio"

\* four-byte values with distinct bytes, equal bytes, and the two readings
FloatSamples == { <<1, 2, 3, 4>>, <<4, 3, 2, 1>>, <<0, 0, 188, 65>>,
                  <<0, 0, 112, 66>>, <<0, 0, 0, 0>>, <<255, 255, 255, 255>>,
                  <<0, 0, 192, 127>> }

\* the inverse byte layout: bytes 0..3 and bytes 4..7 of a payload
Decode(m) == << SubSeq(m, 1, 4), SubSeq(m, 5, 8) >>

\* buildMsg on every pair of sample values: 8 bytes, the temperature's
\* then the humidity's, and decoding gives the pair back
LayoutOnSamples ==
    \A t \in FloatSamples, h \in FloatSamples :
       /\ Len(buildMsg(t, h)) = 8
       /\ \A i \in 1..4 : /\ buildMsg(t, h)[i] = t[i]
                          /\ buildMsg(t, h)[4 + i] = h[i]
       /\ Decode(buildMsg(t, h)) = <<t, h>>

\* C11: the payload is 8 bytes, bytes 0..3 the temperature's bytes in
\* memory order and bytes 4..7 the humidity's, so that decoding gives both
\* values back; for the payload a cycle hands to the modem and for every
\* pair of sample values.
C11_PayloadLayout ==
    /\ LayoutOnSamples
    /\ \A i \in 1..Len(radioTx) :
          /\ Len(radioTx[i]) = 8
          /\ Decode(radioTx[i]) = reading

C11_Witness ==
    /\ reading = << <<0, 0, 188, 65>>, <<0, 0, 112, 66>> >>
    /\ radioTx = << <<0, 0, 188, 65, 0, 0, 112, 66>> >>

IsPrefix(a, b) == Len(a) <= Len(b) /\ a = SubSeq(b, 1, Len(a))

\* the requests of a boot that provisions, in the order of the code
ProvisioningRequests ==
    GateReads \o << <<"W", 0, 92>>, <<"W", 1, 0>>, <<"W", 2, 92>>,
                    <<"W", 1, 1>>, <<"W", 2, 93>>, <<"LOCK">> >>

\* C12: on a boot whose gate reports "not configured" the requests to the
\* modem are, in this order, the stamp writes 0:=92, 1:=0, 2:=92, all
\* before a command is processed; 1:=1 and 2:=93, only once the handler
\* is done; and the lock command, once, before the first join.
C12_RequestOrder ==
    /\ IsPrefix(radioLog, ProvisioningRequests)
    /\ command # <<>> => Len(radioLog) >= 6
    /\ Len(radioLog) > 6 => (configuration /\ command = AT_S)
    /\ (Len(radioLog) > 3 /\ (pc = "loop" \/ lastOp # "none"))
          => radioLog = ProvisioningRequests
    /\ Len(radioLog) = 3 => pc \in {"loop", "stamp0"}

C12_Witness ==
    /\ lastOp = "joinFail"
    /\ radioLog = ProvisioningRequests
    /\ configuration

\* C13: every string given to processCommand is one line: it holds one
\* line terminator, as its last character.
C13_OneLinePerCommand ==
    command # <<>> =>
        (Count(command, NL) = 1 /\ command[Len(command)] = NL)

\* the step is not a power cycle
SameBoot == pc' # "init_LoRaWan"

\* C14: within a boot a credential changes only in the step that accepts
\* its own command, and then nothing else of the record changes; the flag
\* changes only when AT+S is accepted; every other dispatch (help, refused
\* value, refused AT+S, unknown line) changes none of them.  A credential
\* that is set is never emptied, and a valid line is accepted whatever
\* was refused before it.
C14_OnlyAcceptedCommandsWrite ==
    /\ [][ SameBoot =>
             /\ devEui' # devEui =>
                   /\ StartsWith(command', AT_D) /\ reply' = "DevEUI OK"
                   /\ UNCHANGED <<appEui, appKey, configuration>>
             /\ appEui' # appEui =>
                   /\ StartsWith(command', AT_A) /\ reply' = "AppEUI OK"
                   /\ UNCHANGED <<devEui, appKey, configuration>>
             /\ appKey' # appKey =>
                   /\ StartsWith(command', AT_K) /\ reply' = "AppKey OK"
                   /\ UNCHANGED <<devEui, appEui, configuration>>
             /\ configuration' # configuration =>
                   /\ command' = AT_S
                   /\ reply' = "Configuration of the credentials finished"
                   /\ UNCHANGED <<devEui, appEui, appKey>>
             /\ devEui # <<>> => devEui' # <<>>
             /\ appEui # <<>> => appEui' # <<>>
             /\ appKey # <<>> => appKey' # <<>> ]_vars
    /\ [](/\ command = DevEuiLine =>
               (reply = "DevEUI OK" /\ devEui = Remove(DevEuiLine, 0, 5))
          /\ command = AppEuiLine =>
               (reply = "AppEUI OK" /\ appEui = Remove(AppEuiLine, 0, 5))
          /\ command = AppKeyLine =>
               (reply = "AppKey OK" /\ appKey = Remove(AppKeyLine, 0, 5)))

C14_Witness ==
    /\ command = BadDevEuiLine
    /\ reply = "DevEUI incorrect, please try again"
    /\ devEui = Remove(DevEuiLine, 0, 5)
    /\ appEui # <<>>
    /\ ~configuration

IsRawHex(c, n) == Len(c) = n /\ \A i \in 1..n : c[i] \in HexDigits

\* C15: every credential is empty or exactly its N hex digits (16, 16,
\* 32), with no other character in it.
C15_RawHexCredentials ==
    /\ devEui = <<>> \/ IsRawHex(devEui, DevEuiSize)
    /\ appEui = <<>> \/ IsRawHex(appEui, AppEuiSize)
    /\ appKey = <<>> \/ IsRawHex(appKey, AppKeySize)

\* C16: a duty cycle makes one link call, chosen by the link state it
\* starts in: connect when disconnected, send when connected.
C16_OneLinkCallPerCycle ==
    [][ (pc = "loop" /\ pc' = "loop") =>
            calls' = IF connected THEN <<"send">> ELSE <<"connect">> ]_vars

C16_Witness ==
    /\ calls = <<"connect">>
    /\ lastOp = "joinFail" /\ failRun = 51
    /\ radioTx = <<>>

\* C17: a join made while disconnected either succeeds, and then the link
\* is connected with err_count = 0, or fails, and then the link is still
\* disconnected and err_count is what it was; the link goes from
\* disconnected to connected only in a cycle whose join succeeded.
C17_JoinOutcomes ==
    [][ /\ (pc = "loop" /\ pc' = "loop" /\ ~connected) =>
              \/ lastOp' = "joinOk" /\ connected' /\ err_count' = 0
              \/ lastOp' = "joinFail" /\ ~connected'
                                      /\ err_count' = err_count
        /\ (~connected /\ connected') =>
              (lastOp' = "joinOk" /\ calls' = <<"connect">>) ]_vars

C17_Witness ==
    lastOp = "joinFail" /\ prevErr = 51 /\ err_count = 51 /\ ~connected

\* C18: while the link is down every cycle is a join attempt and hands
\* nothing to the modem; once the threshold has forced the link down
\* (err_count = 51) a join succeeds at some time and leaves the link
\* connected with err_count = 0, and the cycle after it sends.
C18_RejoinAfterThresholdDrop ==
    /\ [][ (pc = "loop" /\ pc' = "loop" /\ ~connected) =>
               (calls' = <<"connect">> /\ radioTx' = <<>>) ]_vars
    /\ (~connected /\ err_count = ErrThreshold + 1)
          ~> (connected /\ err_count = 0 /\ lastOp = "joinOk")
    /\ (connected /\ lastOp = "joinOk") ~> (calls = <<"send">>)

C18_Witness ==
    lastOp = "joinOk" /\ prevErr = ErrThreshold + 1 /\ connected
                      /\ err_count = 0

\* C19: err_count is always in 0..51, and at most 50 while the link is
\* connected.
C19_CounterRange ==
    /\ err_count \in 0..(ErrThreshold + 1)
    /\ connected => err_count <= ErrThreshold

C19_Witness ==
    /\ lastOp = "sendFail" /\ prevErr = ErrThreshold
    /\ err_count = ErrThreshold + 1 /\ ~connected

\* C20: the store holds the configured record (92, 1, 93) only if the
\* command handler has reached done, in this boot or an earlier one.
C20_ConfiguredOnlyIfDone ==
    NvmIs(Configured) => everDone

=============================================================================
